---- MODULE Spec2Model ----
(***************************************************************************)
(* Model of indy-didresolver/src/resolver.rs: the Resolver's resolve and   *)
(* dereference entry points, the shared _resolve pipeline, the legacy      *)
(* endpoint fallback, build_request, parse_ledger_data and parse_or_now.   *)
(*                                                                         *)
(* One call is in flight at a time (the resolver keeps no state between    *)
(* calls).  The steps of a call are separated at the points where the      *)
(* caller is suspended on the request execution service, so that the       *)
(* service's answer and the wall clock are inputs of the step that reads   *)
(* them.                                                                   *)
(***************************************************************************)
EXTENDS Integers, Sequences, FiniteSets, TLC

VARIABLES
    pc,          \* where the call in flight stands ("idle": none)
    entry,       \* "resolve" or "dereference"
    did,         \* the raw identifier the caller passed
    now,         \* the wall clock, epoch seconds
    nowAtCall,   \* the wall clock when the caller made the call
    request,     \* the PreparedRequest of the primary object
    ledger_data, \* the raw reply to the primary request
    nym,         \* the decoded GetNymResultV1
    legacy,      \* what fetch_legacy_endpoint ended with
    result,      \* (Result, object_type) of _resolve's match
    execLog,     \* the requests handed to the execution service, in order
    outcome      \* what the call ended with

vars == <<pc, entry, did, now, nowAtCall, request, ledger_data, nym,
          legacy, result, execLog, outcome>>

----------------------------------------------------------------------------
(* Bounds of the model.                                                    *)

\* First value of the wall clock (epoch seconds, 2026-10-30T00:00:00Z).
ClockStart == 1793318400

\* How many seconds the wall clock may advance during the run.
MaxTicks == 2

----------------------------------------------------------------------------
(* Option<T> and Result<T, E>.  A panic (a failed unwrap) is a third way   *)
(* for a Rust function to end: it unwinds through every caller.            *)

None == <<>>
Some(v) == <<v>>
IsSome(o) == Len(o) = 1
IsNone(o) == Len(o) = 0
Unwrap(o) == o[1]

Ok(v) == [ok |-> TRUE, val |-> Some(v), err |-> "", panic |-> FALSE]
Err(e) == [ok |-> FALSE, val |-> None, err |-> e, panic |-> FALSE]
Panic == [ok |-> FALSE, val |-> None, err |-> "panic", panic |-> TRUE]
Val(r) == Unwrap(r.val)

----------------------------------------------------------------------------
(* Ledger transaction types (indy_vdr::ledger::constants).                 *)

GET_ATTR == "104"
GET_NYM == "105"
GET_SCHEMA == "107"
GET_CRED_DEF == "108"
GET_REVOC_REG_DEF == "115"
GET_REVOC_REG == "116"
GET_REVOC_REG_DELTA == "117"

LEGACY_INDY_SERVICE == "endpoint"

----------------------------------------------------------------------------
(* RFC-3339 timestamps.  The text of a query value is kept as its fields:  *)
(* ext is FALSE for a text that lacks the '-' separators of the extended   *)
(* format (such as "20201220T19:17:47Z"), off is the UTC offset in         *)
(* minutes ("Z" is 0).                                                     *)

DateText(y, mo, d, h, mi, s, off, ext) ==
    [year |-> y, month |-> mo, day |-> d, hour |-> h, minute |-> mi,
     second |-> s, off |-> off, ext |-> ext]

IsLeap(y) == (y % 4 = 0 /\ y % 100 # 0) \/ y % 400 = 0

DaysInMonth(y, m) ==
    IF m = 2 THEN (IF IsLeap(y) THEN 29 ELSE 28)
    ELSE IF m \in {4, 6, 9, 11} THEN 30 ELSE 31

\* Days between 1970-01-01 and the civil date y-m-d.
DaysFromCivil(y, m, d) ==
    LET yy == IF m <= 2 THEN y - 1 ELSE y
        era == yy \div 400
        yoe == yy - era * 400
        mp == IF m > 2 THEN m - 3 ELSE m + 9
        doy == (153 * mp + 2) \div 5 + d - 1
        doe == yoe * 365 + yoe \div 4 - yoe \div 100 + doy
    IN era * 146097 + doe - 719468

\* DateTime::parse_from_rfc3339: Ok(the DateTime) or Err(DateTimeError).
\* A second of 60 is read as a leap second, kept as second 59 of the minute;
\* the offset must stay below a day.
parse_from_rfc3339(t) ==
    IF /\ t.ext
       /\ t.month \in 1..12
       /\ t.day \in 1..DaysInMonth(t.year, t.month)
       /\ t.hour \in 0..23 /\ t.minute \in 0..59 /\ t.second \in 0..60
       /\ t.off \in -1439..1439
    THEN Ok([t EXCEPT !.second = IF t.second = 60 THEN 59 ELSE t.second])
    ELSE Err("DateTimeError")

\* DateTime::timestamp: epoch seconds of the instant, in UTC.
timestamp(t) ==
    DaysFromCivil(t.year, t.month, t.day) * 86400
      + t.hour * 3600 + t.minute * 60 + t.second - t.off * 60

\* "2020-12-20T19:17:47Z"
VT_2020 == DateText(2020, 12, 20, 19, 17, 47, 0, TRUE)
\* "2020-12-20T20:17:47+01:00", the same instant
VT_2020_cet == DateText(2020, 12, 20, 20, 17, 47, 60, TRUE)
\* "2019-12-20T19:17:47Z"
VT_2019 == DateText(2019, 12, 20, 19, 17, 47, 0, TRUE)
\* "20201220T19:17:47Z", not RFC-3339
VT_basic == DateText(2020, 12, 20, 19, 17, 47, 0, FALSE)
\* "2020-13-20T19:17:47Z", not a date
VT_month13 == DateText(2020, 13, 20, 19, 17, 47, 0, TRUE)
\* "2020-12-20T19:17:60Z", a leap second
VT_leap == DateText(2020, 12, 20, 19, 17, 60, 0, TRUE)
\* "2020-12-20T19:17:47+24:00", an offset of a whole day
VT_off24 == DateText(2020, 12, 20, 19, 17, 47, 1440, TRUE)

MutNowOnly(datetime, clock) == Ok(clock)

\* parse_or_now: `clock` is what Utc::now().timestamp() returns.
parse_or_now(datetime, clock) ==
    IF IsSome(datetime)
    THEN LET dt == parse_from_rfc3339(Unwrap(datetime))
         IN IF dt.ok THEN Ok(timestamp(Val(dt))) ELSE dt
    ELSE Ok(clock)

----------------------------------------------------------------------------
(* The identifier model (did.rs).  A raw identifier is kept as the parts   *)
(* its grammar distinguishes; `grammar` is FALSE for a string the DID URL  *)
(* grammar rejects.  A path is the text after the subject id: its object   *)
(* type segment and the object-specific segments.  A name or tag is the    *)
(* sequence of the pieces ':' separates in it, so "np:db" is               *)
(* <<"np", "db">> and the empty text is <<"">>.                            *)

NAMESPACE == "idunion"
SUBJECT == "Dk1fRRTtNazyMuK2cr64wp"

PathText(t, seq, name, version, tag) ==
    [object_type |-> t, schema_seq_no |-> seq, name |-> name,
     version |-> version, tag |-> tag]

Query(vt, from, to) == [VersionTime |-> vt, From |-> from, To |-> to]

RawDid(grammar, path, query) ==
    [grammar |-> grammar, namespace |-> NAMESPACE, id |-> SUBJECT,
     path |-> path, query |-> query]

\* DidUrl::from_str.  Query values are kept as text: a versionTime that is
\* not RFC-3339 still parses (resolver.rs:355-357).
DidUrl_from_str(raw) ==
    IF raw.grammar
    THEN Ok([namespace |-> raw.namespace, id |-> raw.id, path |-> raw.path,
             query |-> raw.query])
    ELSE Err("InvalidDidUrl")

\* LedgerObject::from_str: the closed set of ledger-object kinds.
LedgerObject_from_str(p) ==
    CASE p.object_type = "SCHEMA" ->
           Ok([kind |-> "Schema", name |-> p.name, version |-> p.version])
      [] p.object_type = "CLAIM_DEF" ->
           Ok([kind |-> "ClaimDef", schema_seq_no |-> p.schema_seq_no,
               name |-> p.name])
      [] p.object_type = "REV_REG_DEF" ->
           Ok([kind |-> "RevRegDef", schema_seq_no |-> p.schema_seq_no,
               claim_def_name |-> p.name, tag |-> p.tag])
      [] p.object_type = "REV_REG_ENTRY" ->
           Ok([kind |-> "RevRegEntry", schema_seq_no |-> p.schema_seq_no,
               claim_def_name |-> p.name, tag |-> p.tag])
      [] p.object_type = "REV_REG_DELTA" ->
           Ok([kind |-> "RevRegDelta", schema_seq_no |-> p.schema_seq_no,
               claim_def_name |-> p.name, tag |-> p.tag])
      [] OTHER -> Err("InvalidDidUrl")

----------------------------------------------------------------------------
(* Ledger-native composite identifiers, as the sequence of the pieces that *)
(* ':' separates in the formatted string.                                  *)

\* SchemaId::new(did, name, version): "<did>:2:<name>:<version>"
SchemaId_new(id, name, version) == <<id, "2">> \o name \o <<version>>

\* format!("{}:3:CL:{}:{}", did.id, schema_seq_no, name)
FormatCredDefId(id, seq, name) == <<id, "3", "CL", ToString(seq)>> \o name

\* format!("{}:4:{}:3:CL:{}:{}:CL_ACCUM:{}", did.id, did.id, seq, name, tag)
FormatRevRegId(id, seq, name, tag) ==
    <<id, "4", id, "3", "CL", ToString(seq)>> \o name \o <<"CL_ACCUM">> \o tag

\* CredentialDefinitionId::from_str: the identifier's own validation, which
\* counts the ':'-separated parts (did, 3, CL, schema ref, tag).
CredentialDefinitionId_from_str(parts) ==
    IF Len(parts) = 5 THEN Ok(parts) ELSE Err("ValidationError")

\* The text of pieces i..j of p, joined by ':', is not empty.
NonEmptyJoin(p, i, j) == i <= j /\ (i < j \/ p[i] # "")

\* RevocationRegistryId::from_str: the identifier's own validation, the
\* pattern <did>:4:<cred def id>:<registry type>:<tag> with every group at
\* least one character long (a group may hold ':').
RevocationRegistryId_from_str(parts) ==
    IF \E i \in 2..Len(parts) :
          /\ parts[i] = "4"
          /\ NonEmptyJoin(parts, 1, i - 1)
          /\ \E a \in (i + 1)..Len(parts), b \in (i + 2)..Len(parts) :
                /\ a < b /\ b < Len(parts)
                /\ NonEmptyJoin(parts, i + 1, a)
                /\ NonEmptyJoin(parts, a + 1, b)
                /\ NonEmptyJoin(parts, b + 1, Len(parts))
    THEN Ok(parts) ELSE Err("ValidationError")

----------------------------------------------------------------------------
(* PreparedRequest and the RequestBuilder constructors.                    *)

Request(txn, target, ts, from, to, data) ==
    [txn_type |-> txn, target |-> target, timestamp |-> ts,
     from |-> from, to |-> to, data |-> data]

\* build_get_nym_request and build_get_attrib_request take the subject's
\* DidValue, which DidUrl::from_str has validated: no input makes them fail.
build_get_nym_request(dest) ==
    Ok(Request(GET_NYM, <<dest>>, None, None, None, None))

build_get_attrib_request(dest, raw) ==
    Ok(Request(GET_ATTR, <<dest, raw>>, None, None, None, None))

\* The builder splits the schema id at ':' into did, marker, name and version
\* again and fails on any other number of parts; the request's data carries
\* the name and the version.
build_get_schema_request(id) ==
    IF Len(id) = 4
    THEN Ok(Request(GET_SCHEMA, id, None, None, None,
                    Some([name |-> id[3], version |-> id[4]])))
    ELSE Err("VdrError")

build_get_cred_def_request(id) ==
    Ok(Request(GET_CRED_DEF, id, None, None, None, None))

build_get_revoc_reg_def_request(id) ==
    Ok(Request(GET_REVOC_REG_DEF, id, None, None, None, None))

build_get_revoc_reg_request(id, ts) ==
    Ok(Request(GET_REVOC_REG, id, Some(ts), None, None, None))

build_get_revoc_reg_delta_request(id, from, to) ==
    Ok(Request(GET_REVOC_REG_DELTA, id, None, from, Some(to), None))

MutFromOrNow(query, clock) ==
    IF IsSome(query.From)
    THEN LET dt == parse_from_rfc3339(Unwrap(query.From))
         IN IF dt.ok THEN Some(timestamp(Val(dt))) ELSE None
    ELSE Some(clock)

\* The `from` of a delta request: unset unless the key is there and parses.
delta_from(query, clock) ==
    IF IsSome(query.From)
    THEN LET dt == parse_from_rfc3339(Unwrap(query.From))
         IN IF dt.ok THEN Some(timestamp(Val(dt))) ELSE None
    ELSE None

\* build_request: `clock` is what Utc::now() returns if it is read.  The
\* unwrap() of a rejected composite identifier panics.
build_request(d, clock) ==
    IF IsSome(d.path)
    THEN LET lo == LedgerObject_from_str(Unwrap(d.path))
         IN IF ~lo.ok THEN lo
            ELSE LET o == Val(lo)
                     creddef == CredentialDefinitionId_from_str(
                                  FormatCredDefId(d.id, o.schema_seq_no, o.name))
                     revreg == RevocationRegistryId_from_str(
                                 FormatRevRegId(d.id, o.schema_seq_no,
                                                o.claim_def_name, o.tag))
                 IN CASE o.kind = "Schema" ->
                           build_get_schema_request(
                               SchemaId_new(d.id, o.name, o.version))
                      [] o.kind = "ClaimDef" ->
                           IF ~creddef.ok THEN Panic
                           ELSE build_get_cred_def_request(Val(creddef))
                      [] o.kind = "RevRegDef" ->
                           IF ~revreg.ok THEN Panic
                           ELSE build_get_revoc_reg_def_request(Val(revreg))
                      [] o.kind = "RevRegEntry" ->
                           LET ts == parse_or_now(d.query.VersionTime, clock)
                           IN IF ~ts.ok THEN ts
                              ELSE IF ~revreg.ok THEN Panic
                              ELSE build_get_revoc_reg_request(Val(revreg), Val(ts))
                      [] o.kind = "RevRegDelta" ->
                           LET from == delta_from(d.query, clock)
                               to == parse_or_now(d.query.To, clock)
                           IN IF ~to.ok THEN to
                              ELSE IF ~revreg.ok THEN Panic
                              ELSE build_get_revoc_reg_delta_request(
                                       Val(revreg), from, Val(to))
    ELSE build_get_nym_request(d.id)

----------------------------------------------------------------------------
(* Replies of the request execution service.  A reply is JSON text; the    *)
(* model keeps whether it parses, its "op", and under "result" the echoed  *)
(* transaction type and the "data" member (None: the member is missing).   *)
(* A JSON string's text is kept as the members it would parse to.          *)

Text(json, dest, verkey, diddoc, ep) ==
    [json |-> json, dest |-> dest, verkey |-> verkey,
     diddoc_content |-> diddoc, endpoint |-> ep]

\* not JSON at all
TxtGarbage == Text(FALSE, None, None, None, None)
\* {"dest": ..., "verkey": ...}
TxtNymLegacy == Text(TRUE, Some(SUBJECT), Some("verkey1"), None, None)
\* {"dest": ..., "verkey": ..., "diddoc_content": ...}
TxtNymDoc == Text(TRUE, Some(SUBJECT), Some("verkey1"), Some("content1"), None)
\* {"endpoint": {"endpoint": "https://example.com"}}
TxtEndpoint == Text(TRUE, None, None, None, Some("https://example.com"))

JNull == [t |-> "null", text |-> TxtGarbage]
JObject == [t |-> "object", text |-> TxtGarbage]
JString(tx) == [t |-> "string", text |-> tx]

RawReply(wellformed, txn, data) ==
    [wellformed |-> wellformed, op |-> "REPLY", type |-> txn, data |-> data]

DataChoices ==
    {None, Some(JNull), Some(JObject), Some(JString(TxtGarbage)),
     Some(JString(TxtNymLegacy)), Some(JString(TxtNymDoc)),
     Some(JString(TxtEndpoint))}

\* What perform_ledger_request can come back with for a request of type txn.
Answers(txn) ==
    {[kind |-> "error", reply |-> RawReply(FALSE, txn, None)],
     [kind |-> "failed", reply |-> RawReply(FALSE, txn, None)],
     [kind |-> "reply", reply |-> RawReply(FALSE, txn, None)]}
    \cup {[kind |-> "reply", reply |-> RawReply(TRUE, txn, dt)] : dt \in DataChoices}

\* serde_json::from_str::<Value>
json_from_str(raw) ==
    IF raw.wellformed
    THEN Ok([op |-> raw.op, result |-> [type |-> raw.type, data |-> raw.data]])
    ELSE Err("ParsingError")

\* v["result"]["data"]: a missing member indexes to Null.
index_result_data(v) ==
    IF IsSome(v.result.data) THEN Unwrap(v.result.data) ELSE JNull

\* Value::as_str
as_str(v) == IF v.t = "string" THEN Some(v.text) ELSE None

\* serde_json::from_str::<GetNymResultV1>
GetNymResultV1_from_str(tx) ==
    IF tx.json /\ IsSome(tx.dest) /\ IsSome(tx.verkey)
    THEN Ok([dest |-> Unwrap(tx.dest), verkey |-> Unwrap(tx.verkey),
             diddoc_content |-> tx.diddoc_content])
    ELSE Err("ParsingError")

\* serde_json::from_str::<Endpoint>
Endpoint_from_str(tx) ==
    IF tx.json /\ IsSome(tx.endpoint)
    THEN Ok([endpoint |-> Unwrap(tx.endpoint)])
    ELSE Err("ParsingError")

\* handle_request: both a failed block_on and RequestResult::Failed become
\* DidIndyError::VdrError.
handle_request(ans) ==
    IF ans.kind = "reply" THEN Ok(ans.reply) ELSE Err("VdrError")

MutNoNullCheck(raw) ==
    LET v == json_from_str(raw)
    IN IF ~v.ok THEN v ELSE Ok(index_result_data(Val(v)))

parse_ledger_data(raw) ==
    LET v == json_from_str(raw)
    IN IF ~v.ok THEN v
       ELSE LET data == index_result_data(Val(v))
            IN IF data = JNull THEN Err("EmptyData") ELSE Ok(data)

----------------------------------------------------------------------------
(* The identity document (did_document.rs).                                *)

DidDocument_new(namespace, dest, verkey, ep, diddoc) ==
    [namespace |-> namespace, id |-> dest, verkey |-> verkey,
     endpoint |-> ep, diddoc_content |-> diddoc]

\* DidDocument::to_value: the serializer of a synthesized document (spec 4.5:
\* never fails on a decoded NYM record).
to_value(doc) ==
    Ok([id |-> <<"did", "indy", doc.namespace, doc.id>>,
        verificationMethod |-> doc.verkey,
        service |-> doc.endpoint])

----------------------------------------------------------------------------
(* The resolution orchestrator: the pure parts of _resolve, resolve and    *)
(* dereference.                                                            *)

\* Result<T, E>::ok
ok(r) == IF r.ok THEN r.val ELSE None

MutAlwaysLegacy(n) == TRUE

\* get_nym_result.diddoc_content.is_none(): the legacy fallback is tried.
needs_legacy(n) == IsNone(n.diddoc_content)

\* fetch_legacy_endpoint from the execution service's answer on.
fetch_legacy_endpoint(ans) ==
    LET reply == handle_request(ans)
    IN IF ~reply.ok THEN reply
       ELSE LET endpoint_data == parse_ledger_data(Val(reply))
            IN IF ~endpoint_data.ok THEN endpoint_data
               ELSE LET s == as_str(Val(endpoint_data))
                    IN IF IsNone(s) THEN Panic
                       ELSE Endpoint_from_str(Unwrap(s))

\* The object_type of _resolve's match on request.txn_type.
object_type_of(txn) ==
    CASE txn = GET_NYM -> "NYM"
      [] txn = GET_CRED_DEF -> "CRED_DEF"
      [] txn = GET_SCHEMA -> "SCHEMA"
      [] txn = GET_REVOC_REG_DEF -> "REVOC_REG_DEF"
      [] txn = GET_REVOC_REG_DELTA -> "REVOC_REG_DELTA"
      [] OTHER -> "UNKOWN"

\* The get-nym arm: (Result::DidDocument(did_document), "NYM")
nym_result(d, n, ep) ==
    [kind |-> "DidDocument",
     v |-> DidDocument_new(d.namespace, n.dest, n.verkey, ep, None),
     object_type |-> object_type_of(GET_NYM)]

\* The other arms: (Result::Content(data), tag)
content_result(txn, data) ==
    [kind |-> "Content", v |-> data, object_type |-> object_type_of(txn)]

ContentMetadata(raw, ot) ==
    [node_response |-> Val(json_from_str(raw)), object_type |-> ot]

\* serde's rendering of ContentMetadata (rename_all = "camelCase").
metadata_json(metadata) ==
    [nodeResponse |-> metadata.node_response,
     objectType |-> metadata.object_type]

\* resolve, from _resolve's Ok((data, metadata)) on: the ResolutionResult as
\* JSON.  An unset member is None.
resolve_result(res, metadata) ==
    LET value == IF res.kind = "DidDocument" THEN to_value(res.v) ELSE Ok(None)
    IN IF ~value.ok THEN value
       ELSE Ok([didResolutionMetadata |-> None,
                didDocument |-> IF res.kind = "DidDocument"
                                THEN Some(Val(value)) ELSE None,
                didDocumentMetadata |-> Some(metadata_json(metadata))])

MutDerefAnyPayload(res, metadata) ==
    Ok([dereferencingMetadata |-> None,
        contentStream |-> Some(res.v),
        contentMetadata |-> Some(metadata_json(metadata))])

\* dereference, from _resolve's Ok((data, metadata)) on: the
\* DereferencingResult as JSON.
dereference_result(res, metadata) ==
    Ok([dereferencingMetadata |-> None,
        contentStream |-> IF res.kind = "Content" THEN Some(res.v) ELSE None,
        contentMetadata |-> Some(metadata_json(metadata))])

----------------------------------------------------------------------------
(* The identifiers the caller may pass.                                    *)

NAME == <<"revocable">>
NAME_COLON == <<"revo", "cable">>
NAME_SPACE == <<"My Schema">>
TAG == <<"a4e25e54">>
NOTAG == <<"">>

Paths ==
    {None,
     Some(PathText("SCHEMA", 104, NAME, "1.0", NOTAG)),
     Some(PathText("SCHEMA", 104, NAME_COLON, "1.0", NOTAG)),
     Some(PathText("SCHEMA", 104, NAME_SPACE, "1.0", NOTAG)),
     Some(PathText("CLAIM_DEF", 104, NAME, "", NOTAG)),
     Some(PathText("CLAIM_DEF", 104, NAME_COLON, "", NOTAG)),
     Some(PathText("BOGUS", 104, NAME, "", NOTAG))}
    \cup {Some(PathText(t, 104, NAME, "", tg)) :
            t \in {"REV_REG_DEF", "REV_REG_ENTRY", "REV_REG_DELTA"},
            tg \in {TAG, NOTAG}}

Queries ==
    {Query(vt, f, t) :
        vt \in {None, Some(VT_2020), Some(VT_2020_cet), Some(VT_leap),
                Some(VT_basic), Some(VT_off24)},
        f \in {None, Some(VT_2019), Some(VT_month13)},
        t \in {None, Some(VT_2020), Some(VT_leap), Some(VT_basic)}}

RawDids ==
    {RawDid(TRUE, p, q) : p \in Paths, q \in Queries}
    \cup {RawDid(FALSE, None, Query(None, None, None))}

----------------------------------------------------------------------------
(* The state machine.                                                      *)

DidUrlOf(raw) == Val(DidUrl_from_str(raw))

Init ==
    /\ pc = "idle"
    /\ entry = "none"
    /\ did = None
    /\ now = ClockStart
    /\ nowAtCall = ClockStart
    /\ request = None
    /\ ledger_data = None
    /\ nym = None
    /\ legacy = None
    /\ result = None
    /\ execLog = <<>>
    /\ outcome = None

\* The call returns r to its caller (or unwinds, for a panic).
Finish(r) ==
    /\ pc' = "done"
    /\ outcome' = Some(r)

\* The caller reads the clock and calls resolve(raw) or dereference(raw).
Call ==
    /\ pc = "idle"
    /\ \E e \in {"resolve", "dereference"}, raw \in RawDids :
          /\ entry' = e
          /\ did' = Some(raw)
    /\ nowAtCall' = now
    /\ pc' = "called"
    /\ UNCHANGED <<now, request, ledger_data, nym, legacy, result, execLog,
                   outcome>>

\* _resolve, lines 95-98: DidUrl::from_str and build_request.
Translate ==
    /\ pc = "called"
    /\ LET d == DidUrl_from_str(Unwrap(did))
       IN IF ~d.ok
          THEN Finish(d) /\ UNCHANGED request
          ELSE LET req == build_request(Val(d), now)
               IN IF ~req.ok
                  THEN Finish(req) /\ UNCHANGED request
                  ELSE /\ request' = Some(Val(req))
                       /\ pc' = "exec"
                       /\ UNCHANGED outcome
    /\ UNCHANGED <<entry, did, now, nowAtCall, ledger_data, nym, legacy,
                   result, execLog>>

\* _resolve, line 100: handle_request on the primary request.
ExecutePrimary ==
    /\ pc = "exec"
    /\ execLog' = Append(execLog, Unwrap(request))
    /\ \E ans \in Answers(Unwrap(request).txn_type) :
          LET reply == handle_request(ans)
          IN IF ~reply.ok
             THEN Finish(reply) /\ UNCHANGED ledger_data
             ELSE /\ ledger_data' = Some(Val(reply))
                  /\ pc' = "decode"
                  /\ UNCHANGED outcome
    /\ UNCHANGED <<entry, did, now, nowAtCall, request, nym, legacy, result>>

\* _resolve, lines 101-130 up to the legacy fetch: parse_ledger_data and the
\* match on the transaction type.
Decode ==
    /\ pc = "decode"
    /\ LET data == parse_ledger_data(Unwrap(ledger_data))
           txn == Unwrap(request).txn_type
       IN IF ~data.ok
          THEN Finish(data) /\ UNCHANGED <<nym, result>>
          ELSE IF txn = GET_NYM
          THEN LET s == as_str(Val(data))
               IN IF IsNone(s)
                  THEN Finish(Panic) /\ UNCHANGED <<nym, result>>
                  ELSE LET n == GetNymResultV1_from_str(Unwrap(s))
                       IN IF ~n.ok
                          THEN Finish(n) /\ UNCHANGED <<nym, result>>
                          ELSE /\ nym' = Some(Val(n))
                               /\ UNCHANGED outcome
                               /\ IF needs_legacy(Val(n))
                                  THEN pc' = "legacy" /\ UNCHANGED result
                                  ELSE /\ pc' = "wrap"
                                       /\ result' = Some(nym_result(
                                              DidUrlOf(Unwrap(did)), Val(n), None))
          ELSE /\ result' = Some(content_result(txn, Val(data)))
               /\ pc' = "wrap"
               /\ UNCHANGED <<nym, outcome>>
    /\ UNCHANGED <<entry, did, now, nowAtCall, request, ledger_data, legacy,
                   execLog>>

\* _resolve, lines 107-121: fetch_legacy_endpoint(...).ok() and the document.
FetchLegacy ==
    /\ pc = "legacy"
    /\ LET req == build_get_attrib_request(DidUrlOf(Unwrap(did)).id,
                                           LEGACY_INDY_SERVICE)
       IN IF ~req.ok
          THEN /\ legacy' = Some(req)
               /\ result' = Some(nym_result(DidUrlOf(Unwrap(did)),
                                            Unwrap(nym), None))
               /\ pc' = "wrap"
               /\ UNCHANGED <<execLog, outcome>>
          ELSE /\ execLog' = Append(execLog, Val(req))
               /\ \E ans \in Answers(Val(req).txn_type) :
                     LET ep == fetch_legacy_endpoint(ans)
                     IN /\ legacy' = Some(ep)
                        /\ IF ep.panic
                           THEN Finish(Panic) /\ UNCHANGED result
                           ELSE /\ result' = Some(nym_result(
                                       DidUrlOf(Unwrap(did)), Unwrap(nym), ok(ep)))
                                /\ pc' = "wrap"
                                /\ UNCHANGED outcome
    /\ UNCHANGED <<entry, did, now, nowAtCall, request, ledger_data, nym>>

\* _resolve, lines 132-139, and the envelope of resolve or dereference.
Wrap ==
    /\ pc = "wrap"
    /\ LET res == Unwrap(result)
           metadata == ContentMetadata(Unwrap(ledger_data), res.object_type)
       IN Finish(IF entry = "resolve"
                 THEN resolve_result(res, metadata)
                 ELSE dereference_result(res, metadata))
    /\ UNCHANGED <<entry, did, now, nowAtCall, request, ledger_data, nym,
                   legacy, result, execLog>>

\* The caller has the outcome; every value of the call is dropped.
Return ==
    /\ pc = "done"
    /\ pc' = "idle"
    /\ entry' = "none"
    /\ did' = None
    /\ request' = None
    /\ ledger_data' = None
    /\ nym' = None
    /\ legacy' = None
    /\ result' = None
    /\ execLog' = <<>>
    /\ outcome' = None
    /\ UNCHANGED <<now, nowAtCall>>

\* The wall clock advances.
Tick ==
    /\ now < ClockStart + MaxTicks
    /\ now' = now + 1
    /\ UNCHANGED <<pc, entry, did, nowAtCall, request, ledger_data, nym,
                   legacy, result, execLog, outcome>>

Next ==
    \/ Call
    \/ Translate
    \/ ExecutePrimary
    \/ Decode
    \/ FetchLegacy
    \/ Wrap
    \/ Return
    \/ Tick

Spec == Init /\ [][Next]_vars

----------------------------------------------------------------------------
(* What the claims speak of.                                               *)

Translated == pc \notin {"idle", "called"}
Raw == Unwrap(did)
PathOf == Unwrap(Raw.path)
HasPath(t) == Raw.grammar /\ IsSome(Raw.path) /\ PathOf.object_type = t
Returned == pc = "done" /\ Unwrap(outcome).ok
Envelope == Val(Unwrap(outcome))
PrimaryTxn == Unwrap(request).txn_type
PrimaryReply == Unwrap(ledger_data)

\* The metadata, payload and payload metadata members of the envelope.
EnvMetadata ==
    IF entry = "resolve" THEN Envelope.didResolutionMetadata
    ELSE Envelope.dereferencingMetadata
EnvPayload ==
    IF entry = "resolve" THEN Envelope.didDocument ELSE Envelope.contentStream
EnvPayloadMetadata ==
    IF entry = "resolve" THEN Envelope.didDocumentMetadata
    ELSE Envelope.contentMetadata

\* The composite identifier of the path is rejected by its validation.
CompositeRejected ==
    \/ /\ HasPath("CLAIM_DEF")
       /\ ~CredentialDefinitionId_from_str(
              FormatCredDefId(Raw.id, PathOf.schema_seq_no, PathOf.name)).ok
    \/ /\ \E t \in {"REV_REG_DEF", "REV_REG_ENTRY", "REV_REG_DELTA"} : HasPath(t)
       /\ ~RevocationRegistryId_from_str(
              FormatRevRegId(Raw.id, PathOf.schema_seq_no, PathOf.name,
                             PathOf.tag)).ok

Malformed(q) == IsSome(q) /\ ~parse_from_rfc3339(Unwrap(q)).ok

----------------------------------------------------------------------------
\* C1: the primary request is executed at most once and a call makes at most
\* two execution-service calls, the second one being the legacy get-attribute
\* fetch; once a get-nym reply has decoded to a NYM record, the call makes
\* exactly one more execution-service call if the record has no
\* diddoc_content and none if it has.
C1_RoundTrips ==
    /\ Len(execLog) <= 2
    /\ Cardinality({i \in 1..Len(execLog) : execLog[i].txn_type # GET_ATTR}) <= 1
    /\ (Len(execLog) >= 1 => execLog[1] = Unwrap(request))
    /\ (Len(execLog) = 2 => execLog[2].txn_type = GET_ATTR)
    /\ (pc \in {"wrap", "done"} /\ IsSome(nym) =>
          /\ PrimaryTxn = GET_NYM
          /\ Len(execLog) = IF IsNone(Unwrap(nym).diddoc_content) THEN 2 ELSE 1)

C1_Witness ==
    /\ Returned
    /\ IsSome(nym) /\ IsNone(Unwrap(nym).diddoc_content)
    /\ Len(execLog) = 2
    /\ execLog[2].txn_type = GET_ATTR

\* C2: when the NYM record has no diddoc_content and the legacy-endpoint
\* fetch does not yield an endpoint, whatever the way it fails, resolve
\* returns an envelope whose document has no endpoint.
C2_FallbackSwallowed ==
    (/\ pc = "done" /\ entry = "resolve"
     /\ IsSome(legacy) /\ ~Unwrap(legacy).ok) =>
        /\ Unwrap(outcome).ok
        /\ IsSome(Envelope.didDocument)
        /\ IsNone(Unwrap(Envelope.didDocument).service)

\* C3: a primary reply whose result.data is null ends the call with
\* EmptyData: no document or content, no legacy call.
C3_EmptyData ==
    (/\ IsSome(ledger_data) /\ pc # "decode"
     /\ PrimaryReply.wellformed /\ PrimaryReply.data = Some(JNull)) =>
        /\ pc = "done"
        /\ outcome = Some(Err("EmptyData"))
        /\ Unwrap(outcome).err # "VdrError"
        /\ IsNone(result) /\ IsNone(nym) /\ IsNone(legacy)
        /\ Len(execLog) = 1

C3_Witness ==
    /\ pc = "done"
    /\ IsSome(ledger_data)
    /\ PrimaryReply.wellformed /\ PrimaryReply.data = Some(JNull)
    /\ Unwrap(outcome).err = "EmptyData"

\* C4: a call that ends before _resolve has a result, the legacy fetch aside,
\* ends with a failure value returned to the caller: not an envelope, not a
\* panic, and without an execution-service call after a failed parse or
\* translation.
C4_ErrorsShortCircuit ==
    (pc = "done" /\ IsNone(result) /\ IsNone(legacy)) =>
        /\ ~Unwrap(outcome).ok
        /\ ~Unwrap(outcome).panic
        /\ (IsNone(request) => execLog = <<>>)
        /\ Len(execLog) <= 1
        /\ (Unwrap(outcome).err = "VdrError" /\ IsSome(request)
              => IsNone(ledger_data))

\* C5: a present but malformed versionTime (RevRegEntry), from or to
\* (RevRegDelta) of an otherwise well-formed identifier makes build_request
\* fail with the malformed-timestamp error, and no request is built.
C5_MalformedTimestampFails ==
    (/\ Translated /\ ~CompositeRejected
     /\ \/ HasPath("REV_REG_ENTRY") /\ Malformed(Raw.query.VersionTime)
        \/ HasPath("REV_REG_DELTA") /\ Malformed(Raw.query.From)
        \/ HasPath("REV_REG_DELTA") /\ Malformed(Raw.query.To)) =>
        /\ pc = "done"
        /\ IsNone(request)
        /\ outcome = Some(Err("DateTimeError"))

\* C6: for a well-formed RevRegEntry identifier with a valid versionTime the
\* request is a get-revoc-reg whose timestamp is the epoch seconds of that
\* value, whatever the clock shows.
C6_VersionTimeExact ==
    (/\ Translated
     /\ HasPath("REV_REG_ENTRY") /\ ~CompositeRejected
     /\ Raw.query.VersionTime \in
           {Some(VT_2020), Some(VT_2020_cet), Some(VT_leap)}) =>
        /\ IsSome(request)
        /\ PrimaryTxn = GET_REVOC_REG
        /\ Unwrap(request).timestamp =
              IF Raw.query.VersionTime = Some(VT_leap)
              THEN Some(1608491879) ELSE Some(1608491867)

C6_Witness ==
    /\ Translated
    /\ HasPath("REV_REG_ENTRY")
    /\ Raw.query.VersionTime = Some(VT_2020_cet)
    /\ IsSome(request)
    /\ Unwrap(request).timestamp = Some(1608491867)
    /\ now > nowAtCall

\* C7 as stated: for a well-formed identifier, whenever a timestamp parameter
\* is absent build_request succeeds with the default: an absent versionTime
\* (RevRegEntry) and an absent to (RevRegDelta) become a timestamp that is at
\* least the clock value the caller read before the call, and an absent from
\* (RevRegDelta) gives a request without a lower bound, whatever the other
\* parameter holds.
C7_AbsentAlwaysSucceeds ==
    (Translated /\ ~CompositeRejected) =>
        /\ (HasPath("REV_REG_ENTRY") /\ IsNone(Raw.query.VersionTime) =>
              /\ IsSome(request)
              /\ PrimaryTxn = GET_REVOC_REG
              /\ IsSome(Unwrap(request).timestamp)
              /\ Unwrap(Unwrap(request).timestamp) >= nowAtCall)
        /\ (HasPath("REV_REG_DELTA") /\ IsNone(Raw.query.To) =>
              /\ IsSome(request)
              /\ PrimaryTxn = GET_REVOC_REG_DELTA
              /\ IsSome(Unwrap(request).to)
              /\ Unwrap(Unwrap(request).to) >= nowAtCall)
        /\ (HasPath("REV_REG_DELTA") /\ IsNone(Raw.query.From) =>
              /\ IsSome(request)
              /\ PrimaryTxn = GET_REVOC_REG_DELTA
              /\ IsNone(Unwrap(request).from))

\* C7, amended: for a well-formed identifier, an absent versionTime
\* (RevRegEntry) and an absent to (RevRegDelta) make build_request succeed
\* with a timestamp that is at least the clock value the caller read before
\* the call; an absent from (RevRegDelta) gives a request without a lower
\* bound when to is absent or valid RFC-3339, and when to is present but
\* malformed build_request fails with the malformed-timestamp error and
\* builds no request.
C7_AbsentDefaults ==
    (Translated /\ ~CompositeRejected) =>
        /\ (HasPath("REV_REG_ENTRY") /\ IsNone(Raw.query.VersionTime) =>
              /\ IsSome(request)
              /\ PrimaryTxn = GET_REVOC_REG
              /\ IsSome(Unwrap(request).timestamp)
              /\ Unwrap(Unwrap(request).timestamp) >= nowAtCall)
        /\ (HasPath("REV_REG_DELTA") /\ IsNone(Raw.query.To) =>
              /\ IsSome(request)
              /\ PrimaryTxn = GET_REVOC_REG_DELTA
              /\ IsSome(Unwrap(request).to)
              /\ Unwrap(Unwrap(request).to) >= nowAtCall)
        /\ (HasPath("REV_REG_DELTA") /\ IsNone(Raw.query.From)
              /\ ~Malformed(Raw.query.To) =>
              /\ IsSome(request)
              /\ PrimaryTxn = GET_REVOC_REG_DELTA
              /\ IsNone(Unwrap(request).from))
        /\ (HasPath("REV_REG_DELTA") /\ IsNone(Raw.query.From)
              /\ Malformed(Raw.query.To) =>
              /\ pc = "done"
              /\ IsNone(request)
              /\ outcome = Some(Err("DateTimeError")))

C7_Witness ==
    /\ Translated
    /\ HasPath("REV_REG_DELTA")
    /\ IsNone(Raw.query.From) /\ IsNone(Raw.query.To)
    /\ IsSome(request)
    /\ IsNone(Unwrap(request).from)
    /\ Unwrap(Unwrap(request).to) > nowAtCall

\* C8: the object type of a returned envelope is the tag of the primary
\* request's transaction type, "UNKNOWN" for any type without a tag of its
\* own.
C8_ObjectTypeTags ==
    Returned =>
        Unwrap(EnvPayloadMetadata).objectType =
            CASE PrimaryTxn = GET_NYM -> "NYM"
              [] PrimaryTxn = GET_SCHEMA -> "SCHEMA"
              [] PrimaryTxn = GET_CRED_DEF -> "CRED_DEF"
              [] PrimaryTxn = GET_REVOC_REG_DEF -> "REVOC_REG_DEF"
              [] PrimaryTxn = GET_REVOC_REG_DELTA -> "REVOC_REG_DELTA"
              [] OTHER -> "UNKNOWN"

\* C9: when the composite identifier of a ClaimDef, RevRegDef, RevRegEntry or
\* RevRegDelta path is rejected by its validation, translation ends by
\* returning an error to the caller.
C9_RejectionReturned ==
    (Translated /\ CompositeRejected) =>
        /\ pc = "done"
        /\ ~Unwrap(outcome).ok
        /\ ~Unwrap(outcome).panic

\* C10: a returned envelope leaves the resolution/dereferencing metadata
\* unset and carries the full raw reply of the primary request in its payload
\* metadata; resolve sets the document exactly for a get-nym, dereference
\* sets the content exactly for any other request.
C10_Envelope ==
    Returned =>
        /\ IsNone(EnvMetadata)
        /\ IsSome(EnvPayloadMetadata)
        /\ Unwrap(EnvPayloadMetadata).nodeResponse =
              [op |-> "REPLY",
               result |-> [type |-> PrimaryTxn, data |-> PrimaryReply.data]]
        /\ (entry = "resolve" => (IsSome(EnvPayload) <=> PrimaryTxn = GET_NYM))
        /\ (entry = "dereference" =>
              (IsSome(EnvPayload) <=> PrimaryTxn # GET_NYM))

C10_Witness ==
    /\ Returned
    /\ entry = "dereference"
    /\ PrimaryTxn = GET_NYM
    /\ IsNone(EnvPayload)
    /\ Unwrap(EnvPayloadMetadata).nodeResponse.result.type = GET_NYM

====
